---- MODULE Spec2Model ----
(***************************************************************************)
(* Option strategy payoff diagrams (options-payoff-2.py).                  *)
(*                                                                         *)
(* The program is a set of pure functions over numpy arrays plus one       *)
(* plotting wrapper that mutates a matplotlib Axes.  Numbers are modelled  *)
(* as exact rationals in lowest terms (num/den, den > 0); NaN is the       *)
(* record with den = 0.  A Python value is a tagged record: None, a        *)
(* scalar, or a list/array of numbers.                                     *)
(***************************************************************************)
EXTENDS Integers, Sequences, FiniteSets, TLC

(***************************************************************************)
(* Exact arithmetic                                                        *)
(***************************************************************************)
Abs(n) == IF n < 0 THEN -n ELSE n

RECURSIVE GCD(_, _)
GCD(a, b) == IF b = 0 THEN a ELSE GCD(b, a % b)

NaN == [num |-> 0, den |-> 0]

IsNaN(a) == a.den = 0

\* n/d in lowest terms, d > 0
Norm(n, d) == LET g == GCD(Abs(n), d) IN [num |-> n \div g, den |-> d \div g]

RInt(n) == [num |-> n, den |-> 1]

Zero == RInt(0)

RAdd(a, b) == IF IsNaN(a) \/ IsNaN(b) THEN NaN
              ELSE Norm(a.num * b.den + b.num * a.den, a.den * b.den)

RSub(a, b) == IF IsNaN(a) \/ IsNaN(b) THEN NaN
              ELSE Norm(a.num * b.den - b.num * a.den, a.den * b.den)

RMul(a, b) == IF IsNaN(a) \/ IsNaN(b) THEN NaN
              ELSE Norm(a.num * b.num, a.den * b.den)

\* a / k for an integer k; float division by zero gives nan (0/0) here
RDivInt(a, k) == IF IsNaN(a) \/ k = 0 THEN NaN
                 ELSE IF k > 0 THEN Norm(a.num, a.den * k)
                 ELSE Norm(-a.num, a.den * (-k))

\* comparisons with NaN are false
RLt(a, b) == ~IsNaN(a) /\ ~IsNaN(b) /\ a.num * b.den < b.num * a.den

RLe(a, b) == ~IsNaN(a) /\ ~IsNaN(b) /\ a.num * b.den <= b.num * a.den

\* np.maximum(a, b) on one element: NaN propagates
RMax(a, b) == IF IsNaN(a) \/ IsNaN(b) THEN NaN ELSE IF RLt(a, b) THEN b ELSE a

(***************************************************************************)
(* Python values and numpy arrays                                          *)
(***************************************************************************)
None == [kind |-> "None"]

Scalar(r) == [kind |-> "scalar", val |-> r]

Array(s) == [kind |-> "array", elems |-> s]

IsNone(v) == v.kind = "None"

IsList(v) == v.kind = "array"

\* the elements of np.array(v, float) flattened; a scalar is a 0-d array of size 1
Elems(v) == IF IsList(v) THEN v.elems ELSE <<v.val>>

\* np.array(v).size
Size(v) == Len(Elems(v))

\* numpy broadcasting of two 1-d shapes (a 0-d operand behaves as length 1)
CanBroadcast(m, n) == m = n \/ m = 1 \/ n = 1

BroadcastLen(m, n) == IF m = 1 THEN n ELSE m

\* elementwise a - b with broadcasting
ArrSub(a, b) ==
  LET m == Len(a)
      n == Len(b)
  IN [i \in 1..BroadcastLen(m, n) |->
        RSub(IF m = 1 THEN a[1] ELSE a[i], IF n = 1 THEN b[1] ELSE b[i])]

\* np.maximum(a, 0)
Maximum0(a) == [i \in 1..Len(a) |-> RMax(a[i], Zero)]

\* position * a
ArrScale(position, a) == [i \in 1..Len(a) |-> RMul(RInt(position), a[i])]

\* np.mean of a list (nan for the empty list)
RECURSIVE SumSeq(_)
SumSeq(s) == IF s = <<>> THEN Zero ELSE RAdd(s[1], SumSeq(Tail(s)))

Mean(s) == RDivInt(SumSeq(s), Len(s))

(***************************************************************************)
(* Outcomes of a call: a returned array or a raised exception              *)
(***************************************************************************)
Ok(a) == [ok |-> TRUE, err |-> "", val |-> a]

Raise(e) == [ok |-> FALSE, err |-> e, val |-> <<>>]

ErrBroadcast == "ValueError: operands could not be broadcast together"

ErrNoneOperand == "TypeError: unsupported operand type(s) for -: 'float' and 'NoneType'"

ErrStrikes2 == "ValueError: Strikes array must have 2 values [K1, K2]"

ErrCallOrder == "ValueError: Require K1 < K2 for call spread"

ErrPutOrder == "ValueError: Require K1 < K2 for put spread"

ErrPremiums2 == "ValueError: Premiums array must have 2 values"

ErrStrikes4 == "ValueError: Strikes array must have 4 values [K1, K2, K3, K4]"

ErrBearOrder == "ValueError: Require K1 > K2 > K3 > K4 for double bear"

ErrPremiums4 == "ValueError: Premiums array must have 4 values"

ErrSamples == "ValueError: Number of samples must be non-negative"

ErrUnbound == "UnboundLocalError: cannot access local variable 'pnl'"

\* the errors the program raises itself to reject its input
ValidationErrors == {ErrStrikes2, ErrCallOrder, ErrPutOrder, ErrPremiums2,
                     ErrStrikes4, ErrBearOrder, ErrPremiums4}

ArityErrors == {ErrStrikes2, ErrPremiums2, ErrStrikes4, ErrPremiums4}

OrderErrors == {ErrCallOrder, ErrPutOrder, ErrBearOrder}

(***************************************************************************)
(* numpy.linspace(start, stop, num) with endpoint=True                     *)
(***************************************************************************)
\* a linspace that divides by num instead of num - 1 and leaves the last point alone
linspace_no_endpoint(start, stop, num) ==
  IF num < 0 THEN Raise(ErrSamples)
  ELSE LET step == RDivInt(RSub(stop, start), num)
           y    == [i \in 1..num |-> RAdd(RMul(RInt(i - 1), step), start)]
       IN Ok(y)

linspace(start, stop, num) ==
  IF num < 0 THEN Raise(ErrSamples)
  ELSE LET div  == num - 1
           step == RDivInt(RSub(stop, start), div)
           y    == [i \in 1..num |->
                      IF num > 1 /\ i = num THEN stop
                      ELSE IF div > 0 THEN RAdd(RMul(RInt(i - 1), step), start)
                      ELSE start]
       IN Ok(y)

(***************************************************************************)
(* price_grid(spot_price, low=0.5, high=1.5, n=400)                        *)
(***************************************************************************)
DefaultLow == [num |-> 1, den |-> 2]

DefaultHigh == [num |-> 3, den |-> 2]

DefaultN == 400

price_grid(spot_price, low, high, n) ==
  LET spot == IF IsList(spot_price) THEN Mean(spot_price.elems) ELSE spot_price.val
  IN linspace(RMul(low, spot), RMul(high, spot), n)

(***************************************************************************)
(* payoff_call / payoff_put: no validation, plain numpy arithmetic         *)
(***************************************************************************)
payoff_call(sT, strike, premium, position) ==
  IF ~CanBroadcast(Len(sT), Size(strike)) THEN Raise(ErrBroadcast)
  ELSE LET intrinsic == Maximum0(ArrSub(sT, Elems(strike)))
       IN IF IsNone(premium) THEN Raise(ErrNoneOperand)
          ELSE IF ~CanBroadcast(Len(intrinsic), Size(premium)) THEN Raise(ErrBroadcast)
          ELSE Ok(ArrScale(position, ArrSub(intrinsic, Elems(premium))))

payoff_put(sT, strike, premium, position) ==
  IF ~CanBroadcast(Size(strike), Len(sT)) THEN Raise(ErrBroadcast)
  ELSE LET intrinsic == Maximum0(ArrSub(Elems(strike), sT))
       IN IF IsNone(premium) THEN Raise(ErrNoneOperand)
          ELSE IF ~CanBroadcast(Len(intrinsic), Size(premium)) THEN Raise(ErrBroadcast)
          ELSE Ok(ArrScale(position, ArrSub(intrinsic, Elems(premium))))

(***************************************************************************)
(* payoff_call_spread                                                      *)
(***************************************************************************)
\* premiums = np.zeros(k) if premiums is None else np.array(premiums, float)
PremiumsOrZeros(premiums, k) ==
  IF IsNone(premiums) THEN [i \in 1..k |-> Zero] ELSE Elems(premiums)

\* an ordering check that lets equal strikes through
Ascending_or_equal(strikes) == RLe(strikes[1], strikes[2])

\* strikes[0] < strikes[1]
Ascending(strikes) == RLt(strikes[1], strikes[2])

\* strikes[0] > strikes[1] > strikes[2] > strikes[3]
Descending(strikes) ==
  RLt(strikes[2], strikes[1]) /\ RLt(strikes[3], strikes[2]) /\ RLt(strikes[4], strikes[3])

\* a call spread whose short leg is written at K1 as well
payoff_call_spread_same_strike(sT, strikes, premiums, position) ==
  LET ks == Elems(strikes)
      ps == PremiumsOrZeros(premiums, 2)
  IN IF Len(ks) # 2 THEN Raise(ErrStrikes2)
     ELSE IF ~Ascending(ks) THEN Raise(ErrCallOrder)
     ELSE IF Len(ps) # 2 THEN Raise(ErrPremiums2)
     ELSE LET long_call  == ArrSub(Maximum0(ArrSub(sT, <<ks[1]>>)), <<ps[1]>>)
              short_call == ArrSub(Maximum0(ArrSub(sT, <<ks[1]>>)), <<ps[2]>>)
              pnl        == ArrSub(long_call, short_call)
          IN Ok(ArrScale(position, pnl))

payoff_call_spread(sT, strikes, premiums, position) ==
  LET ks == Elems(strikes)
      ps == PremiumsOrZeros(premiums, 2)
  IN IF Len(ks) # 2 THEN Raise(ErrStrikes2)
     ELSE IF ~Ascending(ks) THEN Raise(ErrCallOrder)
     ELSE IF Len(ps) # 2 THEN Raise(ErrPremiums2)
     ELSE LET long_call  == ArrSub(Maximum0(ArrSub(sT, <<ks[1]>>)), <<ps[1]>>)
              short_call == ArrSub(Maximum0(ArrSub(sT, <<ks[2]>>)), <<ps[2]>>)
              pnl        == ArrSub(long_call, short_call)
          IN Ok(ArrScale(position, pnl))

(***************************************************************************)
(* payoff_put_spread                                                       *)
(***************************************************************************)
\* a put spread with the long and the short leg exchanged
payoff_put_spread_swapped(sT, strikes, premiums, position) ==
  LET ks == Elems(strikes)
      ps == PremiumsOrZeros(premiums, 2)
  IN IF Len(ks) # 2 THEN Raise(ErrStrikes2)
     ELSE IF ~Ascending(ks) THEN Raise(ErrPutOrder)
     ELSE IF Len(ps) # 2 THEN Raise(ErrPremiums2)
     ELSE LET long_put  == ArrSub(Maximum0(ArrSub(<<ks[1]>>, sT)), <<ps[1]>>)
              short_put == ArrSub(Maximum0(ArrSub(<<ks[2]>>, sT)), <<ps[2]>>)
              pnl       == ArrSub(short_put, long_put)
          IN Ok(ArrScale(position, pnl))

payoff_put_spread(sT, strikes, premiums, position) ==
  LET ks == Elems(strikes)
      ps == PremiumsOrZeros(premiums, 2)
  IN IF Len(ks) # 2 THEN Raise(ErrStrikes2)
     ELSE IF ~Ascending(ks) THEN Raise(ErrPutOrder)
     ELSE IF Len(ps) # 2 THEN Raise(ErrPremiums2)
     ELSE LET long_put  == ArrSub(Maximum0(ArrSub(<<ks[1]>>, sT)), <<ps[1]>>)
              short_put == ArrSub(Maximum0(ArrSub(<<ks[2]>>, sT)), <<ps[2]>>)
              pnl       == ArrSub(long_put, short_put)
          IN Ok(ArrScale(position, pnl))

(***************************************************************************)
(* payoff_double_bear                                                      *)
(***************************************************************************)
\* a double bear that adds the short put instead of subtracting it
payoff_double_bear_added_put(sT, strikes, premiums, position) ==
  LET ks == Elems(strikes)
      ps == PremiumsOrZeros(premiums, 4)
  IN IF Len(ks) # 4 THEN Raise(ErrStrikes4)
     ELSE IF ~Descending(ks) THEN Raise(ErrBearOrder)
     ELSE IF Len(ps) # 4 THEN Raise(ErrPremiums4)
     ELSE LET long_call  == ArrSub(Maximum0(ArrSub(sT, <<ks[1]>>)), <<ps[1]>>)
              short_call == ArrSub(Maximum0(ArrSub(sT, <<ks[2]>>)), <<ps[2]>>)
              long_put   == ArrSub(Maximum0(ArrSub(<<ks[3]>>, sT)), <<ps[3]>>)
              short_put  == ArrSub(Maximum0(ArrSub(<<ks[4]>>, sT)), <<ps[4]>>)
              pnl        == [i \in 1..Len(sT) |->
                               RAdd(RSub(long_call[i], short_call[i]),
                                    RAdd(long_put[i], short_put[i]))]
          IN Ok(ArrScale(position, pnl))

payoff_double_bear(sT, strikes, premiums, position) ==
  LET ks == Elems(strikes)
      ps == PremiumsOrZeros(premiums, 4)
  IN IF Len(ks) # 4 THEN Raise(ErrStrikes4)
     ELSE IF ~Descending(ks) THEN Raise(ErrBearOrder)
     ELSE IF Len(ps) # 4 THEN Raise(ErrPremiums4)
     ELSE LET long_call  == ArrSub(Maximum0(ArrSub(sT, <<ks[1]>>)), <<ps[1]>>)
              short_call == ArrSub(Maximum0(ArrSub(sT, <<ks[2]>>)), <<ps[2]>>)
              long_put   == ArrSub(Maximum0(ArrSub(<<ks[3]>>, sT)), <<ps[3]>>)
              short_put  == ArrSub(Maximum0(ArrSub(<<ks[4]>>, sT)), <<ps[4]>>)
              pnl        == [i \in 1..Len(sT) |->
                               RAdd(RSub(long_call[i], short_call[i]),
                                    RSub(long_put[i], short_put[i]))]
          IN Ok(ArrScale(position, pnl))

(***************************************************************************)
(* plot_payoff and the matplotlib drawing surface                          *)
(***************************************************************************)
Strategies == {"call", "put", "call_spread", "put_spread", "double_bear"}

\* an Axes as plt.subplots() returns it
FreshAxes == [kind |-> "axes", spine_bottom |-> "outward", lines |-> <<>>,
              xlabel |-> "", ylabel |-> "", legend |-> FALSE]

\* an if/elif chain whose last branch is a plain else
dispatch_else_double_bear(strategy, sT, strikes, premiums, position) ==
  IF strategy = "call" THEN payoff_call(sT, strikes, premiums, position)
  ELSE IF strategy = "put" THEN payoff_put(sT, strikes, premiums, position)
  ELSE IF strategy = "call_spread" THEN payoff_call_spread(sT, strikes, premiums, position)
  ELSE IF strategy = "put_spread" THEN payoff_put_spread(sT, strikes, premiums, position)
  ELSE payoff_double_bear(sT, strikes, premiums, position)

\* the if/elif chain of plot_payoff; pnl stays unbound when no branch matches
dispatch(strategy, sT, strikes, premiums, position) ==
  IF strategy = "call" THEN payoff_call(sT, strikes, premiums, position)
  ELSE IF strategy = "put" THEN payoff_put(sT, strikes, premiums, position)
  ELSE IF strategy = "call_spread" THEN payoff_call_spread(sT, strikes, premiums, position)
  ELSE IF strategy = "put_spread" THEN payoff_put_spread(sT, strikes, premiums, position)
  ELSE IF strategy = "double_bear" THEN payoff_double_bear(sT, strikes, premiums, position)
  ELSE Raise(ErrUnbound)

\* the result of the call, the surface it leaves behind (the one passed as ax,
\* or the one it created), and the number of figures it created
plot_payoff(strategy, strikes, premiums, position, label, ax) ==
  LET sT      == price_grid(strikes, DefaultLow, DefaultHigh, DefaultN).val
      pnl     == dispatch(strategy, sT, strikes, premiums, position)
      created == IF IsNone(ax) THEN 1 ELSE 0
      ax1     == IF IsNone(ax) THEN FreshAxes ELSE ax
      ax2     == [ax1 EXCEPT !.spine_bottom = "zero"]
      ax3     == [ax2 EXCEPT !.lines = Append(@, [x |-> sT, y |-> pnl.val, label |-> label]),
                             !.xlabel = "Price at Expiry",
                             !.ylabel = "PnL",
                             !.legend = IF IsNone(label) THEN @ ELSE TRUE]
  IN IF ~pnl.ok /\ pnl.err # ErrUnbound
       THEN [out |-> Raise(pnl.err), axes |-> ax, figures |-> 0]
     ELSE IF ~pnl.ok
       THEN [out |-> Raise(ErrUnbound), axes |-> ax2, figures |-> created]
     ELSE [out |-> Ok(ax3), axes |-> ax3, figures |-> created]

(***************************************************************************)
(* Inputs                                                                  *)
(***************************************************************************)
MaxStrikes == 4

MaxPremiums == 4

MaxCount == 4

StrikeValues == {80, 90, 100, 110}

PremiumValues == {0, 5}

Positions == {-2, 1}

SeqsUpTo(S, n) == UNION {[1..k -> S] : k \in 0..n}

Rationals(S) == {RInt(n) : n \in S}

StrikeInputs == {Scalar(RInt(100))}
                \cup {Array(s) : s \in SeqsUpTo(Rationals(StrikeValues), MaxStrikes)}

PremiumInputs == {None} \cup {Scalar(p) : p \in Rationals(PremiumValues)}
                 \cup {Array(s) : s \in SeqsUpTo(Rationals(PremiumValues), MaxPremiums)}

\* terminal price grids handed to the payoff functions directly
Grids == {<<RInt(100)>>,
          <<RInt(50), RInt(95), RInt(105), RInt(115), RInt(150)>>}

StrategyNames == Strategies \cup {"straddle"}

Str(s) == [kind |-> "str", val |-> s]

Labels == {None, Str("payoff")}

AxInputs == {None, FreshAxes}

\* plot_payoff builds its own 400-point grid; its strikes and premiums are
\* drawn from representative inputs of every length
PlotStrikeInputs ==
  {Scalar(RInt(100)), Array(<<>>), Array(<<RInt(100)>>),
   Array(<<RInt(100), RInt(110)>>), Array(<<RInt(110), RInt(100)>>),
   Array(<<RInt(100), RInt(100)>>), Array(<<RInt(90), RInt(100), RInt(110)>>),
   Array(<<RInt(110), RInt(100), RInt(90), RInt(80)>>),
   Array(<<RInt(80), RInt(90), RInt(100), RInt(110)>>)}

PlotPremiumInputs ==
  {None, Scalar(RInt(5)), Array(<<RInt(5)>>), Array(<<RInt(5), RInt(0)>>),
   Array(<<RInt(0), RInt(0), RInt(0)>>),
   Array(<<RInt(5), RInt(0), RInt(5), RInt(0)>>)}

\* price_grid arguments
SpotInputs == {Scalar(RInt(k)) : k \in {-100, 0, 200}}
              \cup {Array(s) : s \in SeqsUpTo(Rationals({90, 100}), 2)}

Fractions == {[num |-> 1, den |-> 2], [num |-> 1, den |-> 1], [num |-> 3, den |-> 2]}

Counts == 1..MaxCount

(***************************************************************************)
(* State: one call of one function, from its arguments to its outcome      *)
(***************************************************************************)
VARIABLES pc, fn, args, ret, axes, figures

vars == <<pc, fn, args, ret, axes, figures>>

Init ==
  /\ pc = "ready"
  /\ fn = ""
  /\ args = None
  /\ ret = None
  /\ axes = None
  /\ figures = 0

PayoffArgs(sT, strikes, premiums, position) ==
  [sT |-> sT, strikes |-> strikes, premiums |-> premiums, position |-> position]

Payoff(name, sT, strikes, premiums, position, outcome) ==
  /\ pc' = "done"
  /\ fn' = name
  /\ args' = PayoffArgs(sT, strikes, premiums, position)
  /\ ret' = outcome
  /\ UNCHANGED <<axes, figures>>

PayoffCall ==
  /\ pc = "ready"
  /\ \E sT \in Grids, k \in StrikeInputs, p \in PremiumInputs, q \in Positions :
       Payoff("payoff_call", sT, k, p, q, payoff_call(sT, k, p, q))

PayoffPut ==
  /\ pc = "ready"
  /\ \E sT \in Grids, k \in StrikeInputs, p \in PremiumInputs, q \in Positions :
       Payoff("payoff_put", sT, k, p, q, payoff_put(sT, k, p, q))

PayoffCallSpread ==
  /\ pc = "ready"
  /\ \E sT \in Grids, k \in StrikeInputs, p \in PremiumInputs, q \in Positions :
       Payoff("payoff_call_spread", sT, k, p, q, payoff_call_spread(sT, k, p, q))

PayoffPutSpread ==
  /\ pc = "ready"
  /\ \E sT \in Grids, k \in StrikeInputs, p \in PremiumInputs, q \in Positions :
       Payoff("payoff_put_spread", sT, k, p, q, payoff_put_spread(sT, k, p, q))

PayoffDoubleBear ==
  /\ pc = "ready"
  /\ \E sT \in Grids, k \in StrikeInputs, p \in PremiumInputs, q \in Positions :
       Payoff("payoff_double_bear", sT, k, p, q, payoff_double_bear(sT, k, p, q))

PriceGrid ==
  /\ pc = "ready"
  /\ \E spot \in SpotInputs, low \in Fractions, high \in Fractions, n \in Counts :
       /\ pc' = "done"
       /\ fn' = "price_grid"
       /\ args' = [spot_price |-> spot, low |-> low, high |-> high, n |-> n]
       /\ ret' = price_grid(spot, low, high, n)
       /\ UNCHANGED <<axes, figures>>

PlotPayoff ==
  /\ pc = "ready"
  /\ \E strategy \in StrategyNames, k \in PlotStrikeInputs, p \in PlotPremiumInputs,
        q \in Positions, label \in Labels, ax \in AxInputs :
       LET r == plot_payoff(strategy, k, p, q, label, ax)
       IN /\ pc' = "done"
          /\ fn' = "plot_payoff"
          /\ args' = [strategy |-> strategy, strikes |-> k, premiums |-> p,
                      position |-> q, label |-> label, ax |-> ax]
          /\ ret' = r.out
          /\ axes' = r.axes
          /\ figures' = figures + r.figures

Next ==
  \/ PayoffCall
  \/ PayoffPut
  \/ PayoffCallSpread
  \/ PayoffPutSpread
  \/ PayoffDoubleBear
  \/ PriceGrid
  \/ PlotPayoff

Spec == Init /\ [][Next]_vars

(***************************************************************************)
(* Properties                                                              *)
(***************************************************************************)
Called(name) == pc = "done" /\ fn = name

PayoffFns == {"payoff_call", "payoff_put", "payoff_call_spread",
              "payoff_put_spread", "payoff_double_bear"}

\* the leg count of each strategy
Arity(name) ==
  IF name \in {"payoff_call", "payoff_put", "call", "put"} THEN 1
  ELSE IF name \in {"payoff_double_bear", "double_bear"} THEN 4
  ELSE 2

PayoffByName(name, sT, strikes, premiums, position) ==
  IF name = "payoff_call" THEN payoff_call(sT, strikes, premiums, position)
  ELSE IF name = "payoff_put" THEN payoff_put(sT, strikes, premiums, position)
  ELSE IF name = "payoff_call_spread" THEN payoff_call_spread(sT, strikes, premiums, position)
  ELSE IF name = "payoff_put_spread" THEN payoff_put_spread(sT, strikes, premiums, position)
  ELSE payoff_double_bear(sT, strikes, premiums, position)

ZeroPremiumArray(k) == Array([i \in 1..k |-> Zero])

\* the arguments of the call in progress
K(i) == Elems(args.strikes)[i]

Prem(i) == IF IsNone(args.premiums) THEN Zero ELSE Elems(args.premiums)[i]

Position == RInt(args.position)

NoPremiums ==
  IsNone(args.premiums) \/ \A i \in 1..Size(args.premiums) : Elems(args.premiums)[i] = Zero

GridIndex == 1..Len(args.sT)

\* position * ((Kb - Ka) - p1 + p2)
SpreadLimit(Ka, Kb) == RMul(Position, RAdd(RSub(RSub(Kb, Ka), Prem(1)), Prem(2)))

LinesOf(a) == IF IsNone(a) THEN <<>> ELSE a.lines

\* C1 (as stated): at every terminal price S <= K1 the put spread returns
\* position * ((K2 - K1) - p1 + p2), and no point of the curve is higher.
C1_PutSpreadMaxProfit_AsStated ==
  Called("payoff_put_spread") /\ ret.ok =>
    \A i \in GridIndex :
      RLe(args.sT[i], K(1)) =>
        /\ ret.val[i] = SpreadLimit(K(1), K(2))
        /\ \A j \in GridIndex : RLe(ret.val[j], ret.val[i])

\* C1 (amended): at every terminal price S <= K1 the put spread returns
\* position * ((K1 - K2) - p1 + p2); that value is the lowest point of the
\* curve when position > 0 and the highest when position < 0.
C1_PutSpreadAtOrBelowK1 ==
  Called("payoff_put_spread") /\ ret.ok =>
    \A i \in GridIndex :
      RLe(args.sT[i], K(1)) =>
        /\ ret.val[i] = SpreadLimit(K(2), K(1))
        /\ args.position > 0 => \A j \in GridIndex : RLe(ret.val[i], ret.val[j])
        /\ args.position < 0 => \A j \in GridIndex : RLe(ret.val[j], ret.val[i])

C1_Witness ==
  /\ Called("payoff_put_spread") /\ ret.ok
  /\ args.position = -2
  /\ args.premiums = Array(<<RInt(5), RInt(0)>>)
  /\ \E i, j \in GridIndex :
       /\ RLt(args.sT[i], K(1)) /\ RLt(K(2), args.sT[j])
       /\ RLt(ret.val[j], ret.val[i])

\* C2 (as stated): plot_payoff with an unrecognized strategy name raises no
\* error and produces no payoff curve.
C2_UnknownStrategySilent_AsStated ==
  Called("plot_payoff") /\ args.strategy \notin Strategies =>
    ret.err = "" /\ LinesOf(axes) = LinesOf(args.ax)

\* C2 (amended): plot_payoff with an unrecognized strategy name raises
\* UnboundLocalError when it first reads pnl, and no payoff curve is drawn.
C2_UnknownStrategyRaises ==
  Called("plot_payoff") /\ args.strategy \notin Strategies =>
    ret = Raise(ErrUnbound) /\ LinesOf(axes) = LinesOf(args.ax)

C2_Witness ==
  /\ Called("plot_payoff") /\ args.strategy = "straddle"
  /\ args.strikes = Array(<<RInt(100)>>) /\ args.premiums = Array(<<RInt(5)>>)
  /\ ~ret.ok

\* C3: a strike array or a premium array whose length differs from the
\* strategy's leg count (1, 2, 2, 2, 4) makes the call fail and return no
\* payoff curve (any raised error is counted as the validation error).
C3_ArityMismatchRejected ==
  (/\ pc = "done" /\ fn \in PayoffFns
   /\ \/ Size(args.strikes) # Arity(fn)
      \/ ~IsNone(args.premiums) /\ Size(args.premiums) # Arity(fn))
  => ~ret.ok

\* C4: the spreads reject strikes with K1 >= K2 and the double bear rejects
\* strikes that are not strictly descending, computing nothing; strikes of
\* the right arity and order never get an ordering error.
C4_OrderingValidated ==
  /\ pc = "done" /\ fn \in {"payoff_call_spread", "payoff_put_spread"}
       /\ Size(args.strikes) = 2 =>
       IF RLt(K(1), K(2))
         THEN ret.err \notin OrderErrors
         ELSE ret = Raise(IF fn = "payoff_call_spread" THEN ErrCallOrder ELSE ErrPutOrder)
  /\ Called("payoff_double_bear") /\ Size(args.strikes) = 4 =>
       IF RLt(K(2), K(1)) /\ RLt(K(3), K(2)) /\ RLt(K(4), K(3))
         THEN ret.err \notin OrderErrors
         ELSE ret = Raise(ErrBearOrder)

C4_Witness ==
  /\ Called("payoff_call_spread")
  /\ Size(args.strikes) = 2 /\ K(1) = K(2)
  /\ ret = Raise(ErrCallOrder)

\* C5: at every terminal price S >= K2 the call spread returns
\* position * ((K2 - K1) - p1 + p2); without premiums and with position 1 it
\* never exceeds K2 - K1 (strikes [100, 110]: 5 at S = 105, 10 at S = 115).
C5_CallSpreadCapped ==
  Called("payoff_call_spread") /\ ret.ok =>
    /\ \A i \in GridIndex :
         RLe(K(2), args.sT[i]) => ret.val[i] = SpreadLimit(K(1), K(2))
    /\ NoPremiums /\ args.position = 1 =>
         /\ \A i \in GridIndex : RLe(ret.val[i], RSub(K(2), K(1)))
         /\ args.strikes = Array(<<RInt(100), RInt(110)>>) =>
              \A i \in GridIndex :
                /\ args.sT[i] = RInt(105) => ret.val[i] = RInt(5)
                /\ args.sT[i] = RInt(115) => ret.val[i] = RInt(10)

C5_Witness ==
  /\ Called("payoff_call_spread") /\ ret.ok
  /\ args.strikes = Array(<<RInt(100), RInt(110)>>)
  /\ IsNone(args.premiums) /\ args.position = 1
  /\ \E i, j \in GridIndex :
       /\ args.sT[i] = RInt(105) /\ ret.val[i] = RInt(5)
       /\ args.sT[j] = RInt(115) /\ ret.val[j] = RInt(10)

\* C6: the double bear returns, at every terminal price S,
\* position * [(max(S-K1,0)-p1) - (max(S-K2,0)-p2) + (max(K3-S,0)-p3) - (max(K4-S,0)-p4)];
\* with no premiums, position 1 and strikes [110, 100, 90, 80] that is -10 at
\* S = 150, 10 at S = 50 and 0 at S = 95.
C6_DoubleBearFormula ==
  Called("payoff_double_bear") /\ ret.ok =>
    /\ \A i \in GridIndex :
         LET S  == args.sT[i]
             c1 == RSub(RMax(RSub(S, K(1)), Zero), Prem(1))
             c2 == RSub(RMax(RSub(S, K(2)), Zero), Prem(2))
             p3 == RSub(RMax(RSub(K(3), S), Zero), Prem(3))
             p4 == RSub(RMax(RSub(K(4), S), Zero), Prem(4))
         IN ret.val[i] = RMul(Position, RSub(RAdd(RSub(c1, c2), p3), p4))
    /\ (/\ NoPremiums /\ args.position = 1
        /\ args.strikes = Array(<<RInt(110), RInt(100), RInt(90), RInt(80)>>))
       => \A i \in GridIndex :
            /\ args.sT[i] = RInt(150) => ret.val[i] = RInt(-10)
            /\ args.sT[i] = RInt(50) => ret.val[i] = RInt(10)
            /\ args.sT[i] = RInt(95) => ret.val[i] = RInt(0)

C6_Witness ==
  /\ Called("payoff_double_bear") /\ ret.ok
  /\ args.strikes = Array(<<RInt(110), RInt(100), RInt(90), RInt(80)>>)
  /\ IsNone(args.premiums) /\ args.position = 1
  /\ \E i, j, k \in GridIndex :
       /\ args.sT[i] = RInt(150) /\ ret.val[i] = RInt(-10)
       /\ args.sT[j] = RInt(50) /\ ret.val[j] = RInt(10)
       /\ args.sT[k] = RInt(95) /\ ret.val[k] = RInt(0)

\* C7: for each strategy, passing None as the premiums gives exactly the
\* outcome of passing an all-zero premium array of the strategy's arity,
\* both in a direct call and through plot_payoff.
C7_NonePremiumsAreZeros ==
  /\ pc = "done" /\ fn \in PayoffFns /\ IsNone(args.premiums) =>
       ret = PayoffByName(fn, args.sT, args.strikes,
                          ZeroPremiumArray(Arity(fn)), args.position)
  /\ Called("plot_payoff") /\ args.strategy \in Strategies /\ IsNone(args.premiums) =>
       ret = plot_payoff(args.strategy, args.strikes,
                         ZeroPremiumArray(Arity(args.strategy)),
                         args.position, args.label, args.ax).out

\* C8 (as stated): for every reference and bounds price_grid returns exactly
\* count points, the first low * reference, the last high * reference, evenly
\* spaced and monotonically increasing.
GridReference ==
  IF IsList(args.spot_price) THEN Mean(args.spot_price.elems) ELSE args.spot_price.val

EvenlySpaced(y) ==
  \A i \in 1..(Len(y) - 2) : RSub(y[i + 1], y[i]) = RSub(y[i + 2], y[i + 1])

C8_GridShape_AsStated ==
  Called("price_grid") =>
    /\ ret.ok
    /\ Len(ret.val) = args.n
    /\ args.n >= 1
    /\ ret.val[1] = RMul(args.low, GridReference)
    /\ ret.val[args.n] = RMul(args.high, GridReference)
    /\ EvenlySpaced(ret.val)
    /\ \A i \in 1..(args.n - 1) : RLe(ret.val[i], ret.val[i + 1])

\* C8 (amended): for a reference that is a scalar or a non-empty list (reduced
\* to its mean) and count >= 1, price_grid returns exactly count points, the
\* first being low * reference; when count >= 2 the last is high * reference,
\* the points are evenly spaced, and the sequence is strictly increasing
\* exactly when low * reference < high * reference.
C8_GridShape ==
  (/\ Called("price_grid") /\ args.n >= 1
   /\ IsList(args.spot_price) => args.spot_price.elems # <<>>)
  =>
    /\ ret.ok
    /\ Len(ret.val) = args.n
    /\ ret.val[1] = RMul(args.low, GridReference)
    /\ args.n >= 2 =>
         /\ ret.val[args.n] = RMul(args.high, GridReference)
         /\ EvenlySpaced(ret.val)
         /\ \A i \in 1..(args.n - 1) :
              RLt(ret.val[i], ret.val[i + 1])
                <=> RLt(RMul(args.low, GridReference), RMul(args.high, GridReference))

C8_Witness ==
  /\ Called("price_grid") /\ ret.ok
  /\ args.spot_price = Array(<<RInt(90), RInt(100)>>)
  /\ args.low = DefaultLow /\ args.high = DefaultHigh
  /\ args.n = 3
  /\ ret.val = <<[num |-> 95, den |-> 2], RInt(95), [num |-> 285, den |-> 2]>>

\* C9: whenever a payoff computation succeeds the curve has the length and
\* the ordering of the grid: element i is what the function returns for the
\* one-point grid holding element i, and a plotted curve is as long as its grid.
C9_CurveMatchesGrid ==
  /\ pc = "done" /\ fn \in PayoffFns /\ ret.ok =>
       /\ Len(ret.val) = Len(args.sT)
       /\ \A i \in GridIndex :
            LET r == PayoffByName(fn, <<args.sT[i]>>, args.strikes,
                                  args.premiums, args.position)
            IN r.ok /\ r.val = <<ret.val[i]>>
  /\ Called("plot_payoff") /\ ret.ok =>
       \A l \in 1..Len(axes.lines) : Len(axes.lines[l].y) = Len(axes.lines[l].x)

\* C10: a plot_payoff call that ends in an error leaves the drawing surface
\* passed as ax unchanged and creates no new drawing surface.
C10_PlotAllOrNothing ==
  Called("plot_payoff") /\ ~ret.ok => axes = args.ax /\ figures = 0

====
